---- MODULE Spec2Model ----
(* Model of src/app.js: the Postman collection dashboard.                  *)
(* State: the `state` object, the parts of the DOM the handlers write,     *)
(* window.location.hash, localStorage, and the async handlers in flight.   *)
EXTENDS Integers, Sequences, FiniteSets, TLC

(***************************************************************************)
(* Bounds                                                                  *)
(***************************************************************************)
MaxDepth == 2
MaxWidth == 2
MaxResponses == 2
MaxUrlLen == 4

(***************************************************************************)
(* Collection trees (Postman JSON).  A node is                             *)
(*   [name, request, hasItem, item, response]                              *)
(* request is <<>> when the field is missing, else <<[method, url]>>;      *)
(* hasItem tells a missing item array from an empty one; response is the   *)
(* array of saved example responses [name, body] (<<>> when missing).      *)
(* A URL string and a response body are sequences of tokens.               *)
(***************************************************************************)
Truthy(field) == Len(field) > 0

UrlA == <<"http:", "//", "h", "/", "a">>
UrlAq == <<"http:", "//", "h", "/", "a", "?", "q">>
UrlT == <<"{{", "x", "}}", "/", "b">>

Leaf(name, method, url) ==
    [name |-> name, request |-> <<[method |-> method, url |-> url]>>,
     hasItem |-> FALSE, item |-> <<>>, response |-> <<>>]

Folder(name, items) ==
    [name |-> name, request |-> <<>>, hasItem |-> TRUE, item |-> items,
     response |-> <<>>]

\* response bodies: a compact JSON object, a JSON literal, text that is not
\* JSON, and the empty string
BodyObject == <<"{", "ok", ":", "true", "}">>
BodyLiteral == <<"true">>
BodyText == <<"oops">>
BodyEmpty == <<>>

SavedResponse(name, body) == [name |-> name, body |-> body]

WithResponses(node, responses) == [node EXCEPT !.response = responses]

\* JSON.parse on a body: [ok, value]; ok = FALSE is the SyntaxError
JsonLiterals == {"true", "false", "null", "1"}

JsonParse(text) ==
    IF Len(text) = 1 /\ text[1] \in JsonLiterals
    THEN [ok |-> TRUE, value |-> [kind |-> "literal", key |-> "", lit |-> text[1]]]
    ELSE IF text = <<"{", "}">>
    THEN [ok |-> TRUE, value |-> [kind |-> "empty", key |-> "", lit |-> ""]]
    ELSE IF /\ Len(text) = 5
            /\ text[1] = "{" /\ text[3] = ":" /\ text[5] = "}"
            /\ text[2] \notin {"{", "}", ":"} \cup JsonLiterals
            /\ text[4] \in JsonLiterals
    THEN [ok |-> TRUE, value |-> [kind |-> "object", key |-> text[2], lit |-> text[4]]]
    ELSE [ok |-> FALSE, value |-> [kind |-> "none", key |-> "", lit |-> ""]]

\* JSON.stringify(value, null, 2)
JsonStringify(value) ==
    IF value.kind = "literal" THEN <<value.lit>>
    ELSE IF value.kind = "empty" THEN <<"{", "}">>
    ELSE <<"{", "\n", "  ", value.key, ":", " ", value.lit, "\n", "}">>

\* extractPath (app.js 539-551)
HasTemplate(url) == \E i \in 1..Len(url) : url[i] = "{{"

Parses(url) ==
    /\ Len(url) >= 3
    /\ url[1] = "http:"
    /\ url[2] = "//"
    /\ url[3] \notin {"/", "?", "//", "http:"}

RECURSIVE UpToQuery(_)
UpToQuery(toks) ==
    IF Len(toks) = 0 \/ Head(toks) = "?" THEN <<>>
    ELSE <<Head(toks)>> \o UpToQuery(Tail(toks))

Pathname(url) ==
    LET rest == UpToQuery(SubSeq(url, 4, Len(url)))
    IN IF Len(rest) = 0 THEN <<"/">> ELSE rest

\* an extractPath that looks for the template marker only after parsing
extractPathParsesFirst(url) ==
    IF Parses(url) THEN Pathname(url)
    ELSE url

extractPath(url) ==
    IF HasTemplate(url) THEN url
    ELSE IF Parses(url) THEN Pathname(url)
    ELSE url

\* parseEndpoint (app.js 504-518)
parseEndpoint(item) ==
    LET hasReq == Truthy(item.request)
        url == IF hasReq THEN item.request[1].url ELSE <<>>
        method == IF hasReq /\ item.request[1].method # ""
                  THEN item.request[1].method ELSE "GET"
    IN [name |-> item.name, method |-> method, path |-> extractPath(url),
        url |-> url, response |-> item.response]

\* the selection key `${collectionName}::${endpoint.path}::${endpoint.method}`
KeyOf(collectionName, endpoint) ==
    <<collectionName, endpoint.path, endpoint.method>>

\* a traversal that does not look under a node that has a request
RECURSIVE traverseLeavesOnly(_)
traverseLeavesOnly(items) ==
    IF Len(items) = 0 THEN <<>>
    ELSE LET i == Head(items)
         IN (IF Truthy(i.request) THEN <<i>>
             ELSE IF i.hasItem THEN traverseLeavesOnly(i.item) ELSE <<>>)
            \o traverseLeavesOnly(Tail(items))

\* extractEndpointsFromItem (app.js 520-537)
RECURSIVE traverse(_)
traverse(items) ==
    IF Len(items) = 0 THEN <<>>
    ELSE LET i == Head(items)
         IN (IF Truthy(i.request) THEN <<i>> ELSE <<>>)
            \o (IF i.hasItem THEN traverse(i.item) ELSE <<>>)
            \o traverse(Tail(items))

extractEndpointsFromItem(item) ==
    IF item.hasItem THEN traverse(item.item) ELSE <<>>

\* countEndpoints (app.js 329-343); details is a fetched value
RECURSIVE countTraverse(_)
countTraverse(items) ==
    IF Len(items) = 0 THEN 0
    ELSE LET i == Head(items)
         IN (IF Truthy(i.request) THEN 1 ELSE 0)
            + (IF i.hasItem THEN countTraverse(i.item) ELSE 0)
            + countTraverse(Tail(items))

countEndpoints(details) ==
    IF details.tag # "ok" THEN 0
    ELSE IF details.hasItem THEN countTraverse(details.item) ELSE 0

(***************************************************************************)
(* Map (state.selectedEndpoints): the entries in iteration order.          *)
(***************************************************************************)
MapHas(m, k) == \E i \in 1..Len(m) : m[i].key = k

\* set that moves an overwritten key to the end
MapSetMovesToEnd(m, k, v) ==
    Append(SelectSeq(m, LAMBDA e : e.key # k), [key |-> k, val |-> v])

\* set that never looks for the key
MapSetAppends(m, k, v) == Append(m, [key |-> k, val |-> v])

MapSet(m, k, v) ==
    IF MapHas(m, k)
    THEN [i \in 1..Len(m) |-> IF m[i].key = k THEN [key |-> k, val |-> v] ELSE m[i]]
    ELSE Append(m, [key |-> k, val |-> v])

\* delete that leaves the entry in place
MapDeleteKeeps(m, k) == m

MapDelete(m, k) == SelectSeq(m, LAMBDA e : e.key # k)

MapGet(m, k) == m[CHOOSE i \in 1..Len(m) : m[i].key = k].val

(***************************************************************************)
(* The remote service: the collections it lists and their trees.           *)
(***************************************************************************)
Uids == {"u1", "u2"}

RemoteList == <<"u1", "u2">>

RemoteName(uid) == IF uid = "u1" THEN "Col" ELSE "Other"

RemoteItems(uid) ==
    IF uid = "u1"
    THEN <<Folder("F", <<WithResponses(Leaf("e1", "GET", UrlA),
                                       <<SavedResponse("OK", BodyObject),
                                         SavedResponse("", BodyText)>>),
                         WithResponses(Leaf("e2", "POST", UrlT),
                                       <<SavedResponse("", BodyEmpty),
                                         SavedResponse("Made", BodyLiteral)>>)>>),
           Leaf("e3", "", UrlAq)>>
    ELSE <<Leaf("e4", "GET", UrlA)>>

\* values of collection.details
Undefined == [tag |-> "undefined", uid |-> "", name |-> "", hasItem |-> FALSE, item |-> <<>>]

ErrorValue == [tag |-> "error", uid |-> "", name |-> "", hasItem |-> FALSE, item |-> <<>>]

RemoteCollection(uid) ==
    [tag |-> "ok", uid |-> uid, name |-> RemoteName(uid), hasItem |-> TRUE,
     item |-> RemoteItems(uid)]

\* loadCollectionDetails without its catch: a failed fetch rejects
loadCollectionDetailsRethrows(collectionId, outcome) ==
    IF outcome = "ok"
    THEN [status |-> "return", value |-> RemoteCollection(collectionId)]
    ELSE [status |-> "throw", value |-> ErrorValue]

\* loadCollectionDetails (app.js 275-294): what the awaiting caller gets
loadCollectionDetails(collectionId, outcome) ==
    IF outcome = "ok"
    THEN [status |-> "return", value |-> RemoteCollection(collectionId)]
    ELSE [status |-> "return", value |-> ErrorValue]

\* a combinator that settles with the first callback (Promise.race)
PromiseRace(results) ==
    IF \E i \in 1..Len(results) : results[i] = "rejected" THEN "rejected"
    ELSE IF \E i \in 1..Len(results) : results[i] = "fulfilled" THEN "fulfilled"
    ELSE "pending"

\* Promise.all over the per-collection callbacks (app.js 260-263)
PromiseAll(results) ==
    IF \E i \in 1..Len(results) : results[i] = "rejected" THEN "rejected"
    ELSE IF \A i \in 1..Len(results) : results[i] = "fulfilled" THEN "fulfilled"
    ELSE "pending"

(***************************************************************************)
(* State                                                                   *)
(***************************************************************************)
MaxAsync == 2
MaxObjs == 4

VARIABLES
    apiKey,               \* state.apiKey ("" is null)
    storage,              \* localStorage['postman_api_key'] ("" is absent)
    heap,                 \* the collection objects, by reference
    collections,          \* state.collections: references into heap
    filteredCollections,  \* state.filteredCollections: [alias, arr]; alias when it is
                          \* the same array as state.collections
    currentCollection,    \* state.currentCollection (0 is null)
    selectedEndpoints,    \* state.selectedEndpoints (Map)
    hash,                 \* window.location.hash: "" or the uid of collection/<uid>
    screen,               \* which of loginScreen / mainScreen is active
    loginError,           \* loginError has the class 'show'
    view,                 \* collectionsSection ("list") or collectionDetailSection ("detail")
    folderTree,           \* content of folderTreeContainer
    cards,                \* content of collectionsContainer
    summaryVisible,       \* summarySection.style.display
    summaryContent,       \* content of summaryContent
    refreshDisabled,      \* refreshBtn.disabled
    tasks,                \* async handlers suspended at an await
    started,              \* number of async handlers started by the user so far
    uncaught,             \* exceptions that left a handler uncaught
    lastOp,               \* the handler or continuation that ran last, with the
                          \* showToast calls it made (the toast hides by itself)
    order,                \* keys in the order they entered the selection set
    fnIn,                 \* input of the pure-function harness
    fnOut                 \* its result

vars == <<apiKey, storage, heap, collections, filteredCollections,
          currentCollection, selectedEndpoints, hash, screen, loginError, view,
          folderTree, cards, summaryVisible, summaryContent, refreshDisabled, tasks, started, uncaught, lastOp, order, fnIn, fnOut>>

sessionVars == <<apiKey, storage, heap, collections, filteredCollections,
                 currentCollection, selectedEndpoints, hash, screen, loginError,
                 view, folderTree, cards, summaryVisible, summaryContent, refreshDisabled, tasks, started, uncaught, lastOp, order>>

\* lastOp: which handler ran, on what, and (for the selection handlers) the
\* size of the set before it, whether the key was already present, and the
\* same about the handler before it
NoPrev == [name |-> "other", arg |-> 0, flag |-> FALSE, preSize |-> 0, preHad |-> FALSE]

OpT(name, arg, uid, flag, toasts) ==
    [name |-> name, arg |-> arg, uid |-> uid, flag |-> flag, preSize |-> 0,
     preHad |-> FALSE, prev |-> NoPrev, toasts |-> toasts]

Op(name, arg, uid, flag) == OpT(name, arg, uid, flag, <<>>)

OpSel(name, arg, flag, preHad) ==
    [name |-> name, arg |-> arg, uid |-> "", flag |-> flag,
     preSize |-> Len(selectedEndpoints), preHad |-> preHad, toasts |-> <<>>,
     prev |-> [name |-> lastOp.name, arg |-> lastOp.arg, flag |-> lastOp.flag,
               preSize |-> lastOp.preSize, preHad |-> lastOp.preHad]]

Other == Op("other", 0, "", FALSE)

Task(kind, pc, from, uid, objs, results) ==
    [kind |-> kind, pc |-> pc, from |-> from, uid |-> uid, objs |-> objs,
     results |-> results]

(***************************************************************************)
(* Rendering                                                               *)
(***************************************************************************)
\* createTreeItemElement / createFolderElement / createEndpointElement
\* (app.js 416-502): the elements in document order, each with its depth.
RECURSIVE createTreeItemElements(_, _, _, _)
createTreeItemElements(items, collectionName, depth, sel) ==
    IF Len(items) = 0 THEN <<>>
    ELSE LET item == Head(items)
             isFolder == item.hasItem /\ Len(item.item) > 0
             el == IF isFolder
                   THEN <<[type |-> "folder", item |-> item, depth |-> depth,
                           checked |-> FALSE]>>
                        \o createTreeItemElements(item.item, collectionName, depth + 1, sel)
                   ELSE <<[type |-> "endpoint", item |-> item, depth |-> depth,
                           checked |-> MapHas(sel, KeyOf(collectionName, parseEndpoint(item)))]>>
         IN el \o createTreeItemElements(Tail(items), collectionName, depth, sel)

Blank == [kind |-> "blank", collectionName |-> "", elems |-> <<>>]

Skeleton == [kind |-> "skeleton", collectionName |-> "", elems |-> <<>>]

\* renderFolderTree (app.js 378-414)
renderFolderTree(details, currentName, sel) ==
    IF details.tag = "undefined" THEN [Blank EXCEPT !.kind = "failed"]
    ELSE IF details.tag = "error" THEN [Blank EXCEPT !.kind = "error"]
    ELSE IF ~details.hasItem \/ Len(details.item) = 0 THEN [Blank EXCEPT !.kind = "empty"]
    ELSE [kind |-> "tree", collectionName |-> currentName,
          elems |-> createTreeItemElements(details.item, currentName, 0, sel)]

\* renderCollections / createCollectionCard (app.js 296-327)
renderCollections(filtered, h) ==
    [i \in 1..Len(filtered) |->
        [uid |-> h[filtered[i]].uid,
         count |-> countEndpoints(h[filtered[i]].details)]]

\* the title of a response block: the index shows when there are several
\* responses, the name defaults to 'Success'
ResponseTitle(response, index, n) ==
    [index |-> IF n > 1 THEN index ELSE 0,
     name |-> IF response.name # "" THEN response.name ELSE "Success"]

\* the response loop of createCollapsibleEndpointSummary (app.js 665-678)
RECURSIVE cardResponses(_, _, _)
cardResponses(responses, index, n) ==
    IF index > Len(responses) THEN <<>>
    ELSE LET response == responses[index]
             parsed == JsonParse(response.body)
             formattedBody == IF parsed.ok THEN JsonStringify(parsed.value)
                              ELSE response.body
         IN (IF Truthy(response.body)
             THEN <<[title |-> ResponseTitle(response, index, n), text |-> formattedBody]>>
             ELSE <<>>)
            \o cardResponses(responses, index + 1, n)

\* createCollapsibleEndpointSummary (app.js 627-684): header and response blocks
createCollapsibleEndpointSummary(endpoint) ==
    [method |-> endpoint.method, url |-> endpoint.url,
     blocks |-> cardResponses(endpoint.response, 1, Len(endpoint.response))]

\* a loop that stops after the first response
RECURSIVE textResponsesFirstOnly(_, _, _)
textResponsesFirstOnly(responses, index, n) ==
    IF index > 1 \/ index > Len(responses) THEN <<>>
    ELSE IF Truthy(responses[index].body)
    THEN <<[title |-> ResponseTitle(responses[index], index, n),
            text |-> IF JsonParse(responses[index].body).ok
                     THEN JsonStringify(JsonParse(responses[index].body).value)
                     ELSE responses[index].body]>>
    ELSE <<>>

\* the response loop of getSummaryText (app.js 768-780)
RECURSIVE textResponses(_, _, _)
textResponses(responses, index, n) ==
    IF index > Len(responses) THEN <<>>
    ELSE LET response == responses[index]
             parsed == JsonParse(response.body)
         IN (IF Truthy(response.body)
             THEN <<[title |-> ResponseTitle(response, index, n),
                     text |-> IF parsed.ok THEN JsonStringify(parsed.value)
                              ELSE response.body]>>
             ELSE <<>>)
            \o textResponses(responses, index + 1, n)

\* generateSummary (app.js 607-625): new <<display, content>>
generateSummary(sel, content) ==
    IF Len(sel) = 0 THEN <<FALSE, content>>
    ELSE <<TRUE, [i \in 1..Len(sel) |-> createCollapsibleEndpointSummary(sel[i].val)]>>

\* getSummaryText (app.js 745-784): one block per entry
getSummaryText(sel) ==
    [i \in 1..Len(sel) |->
        [url |-> sel[i].val.url, method |-> sel[i].val.method,
         blocks |-> textResponses(sel[i].val.response, 1, Len(sel[i].val.response))]]

(***************************************************************************)
(* Navigation                                                              *)
(***************************************************************************)
FindByUid(colls, h, uid) ==
    LET hits == {i \in 1..Len(colls) : h[colls[i]].uid = uid}
    IN IF hits = {} THEN 0
       ELSE colls[CHOOSE i \in hits : \A j \in hits : i <= j]

\* showCollectionDetail(collection, false) (app.js 346-364)
showCollectionDetail(obj, h, sel) ==
    [cur |-> obj, view |-> "detail",
     tree |-> renderFolderTree(h[obj].details, h[obj].name, sel),
     spawn |-> {}]

\* openCollectionByUid up to its first await (app.js 82-95)
openCollectionByUid(uid, h) ==
    IF apiKey = ""
    THEN [cur |-> currentCollection, view |-> view, tree |-> folderTree, spawn |-> {}]
    ELSE LET found == FindByUid(collections, h, uid)
         IN IF found # 0
            THEN showCollectionDetail(found, h, selectedEndpoints)
            ELSE [cur |-> currentCollection, view |-> "detail", tree |-> Skeleton,
                  spawn |-> {Task("open", "details", "", uid, <<>>, <<>>)}]

\* closeCollectionDetail (app.js 366-371)
closeCollectionDetail ==
    [cur |-> 0, view |-> "list", tree |-> folderTree, spawn |-> {}]

\* handleHashChange (app.js 72-80) for the fragment h
handleHashChange(fragment, h) ==
    IF fragment # "" THEN openCollectionByUid(fragment, h) ELSE closeCollectionDetail


Filtered(colls) ==
    IF filteredCollections.alias THEN colls ELSE filteredCollections.arr

\* collection objects the handlers in flight have still to create
Reserved ==
    Len(heap)
    + Len(RemoteList) * Cardinality({t \in tasks : t.kind = "login" \/ t.pc = "list"})
    + Cardinality({t \in tasks : t.kind = "open"})

CanStart(spawn, need) ==
    /\ spawn \cap tasks = {}
    /\ started < MaxAsync
    /\ Reserved + need <= MaxObjs

LoginTask == Task("login", "me", "", "", <<>>, <<>>)

\* the handlers whose lastOp.arg is a collection object
HeapOps == {"loadCollections.detail", "loadCollections.done",
            "openCollectionByUid.done", "retryCollectionLoad.done"}

\* the collection objects a reference leads to: from the state, from a
\* handler in flight, or from the record of the last handler
Referenced ==
    {collections[i] : i \in 1..Len(collections)}
    \cup {filteredCollections.arr[i] : i \in 1..Len(filteredCollections.arr)}
    \cup {currentCollection}
    \cup UNION {{t.objs[i] : i \in 1..Len(t.objs)} : t \in tasks}
    \cup (IF lastOp.name \in HeapOps THEN {lastOp.arg} ELSE {})

\* an object no reference leads to any more: nothing can read it again
Collected == [uid |-> "", name |-> "", details |-> Undefined]

\* the heap h at the end of a step, with the unreferenced objects forgotten
Sweep(h) ==
    \E live \in {Referenced'} :
        heap' = [o \in 1..Len(h) |-> IF o \in live THEN h[o] ELSE Collected]

ListTask(from) == Task("load", "list", from, "", <<>>, <<>>)

(***************************************************************************)
(* Initial state: after init() (app.js 42-50), with or without a saved key *)
(***************************************************************************)
InitSession ==
    /\ storage \in {"", "k"}
    /\ apiKey = storage
    /\ tasks = IF storage = "" THEN {} ELSE {LoginTask}
    /\ started = IF storage = "" THEN 0 ELSE 1
    /\ heap = <<>>
    /\ collections = <<>>
    /\ filteredCollections = [alias |-> FALSE, arr |-> <<>>]
    /\ currentCollection = 0
    /\ selectedEndpoints = <<>>
    /\ hash = ""
    /\ screen = "login"
    /\ loginError = FALSE
    /\ view = "list"
    /\ folderTree = Blank
    /\ cards = <<>>
    /\ summaryVisible = FALSE
    /\ summaryContent = <<>>
    /\ refreshDisabled = FALSE
    /\ uncaught = {}
    /\ lastOp = Other
    /\ order = <<>>

Init ==
    /\ InitSession
    /\ fnIn = <<>>
    /\ fnOut = <<>>

(***************************************************************************)
(* Authentication                                                          *)
(***************************************************************************)
\* handleLogin with a non-empty key (app.js 138-150)
HandleLogin ==
    /\ screen = "login"
    /\ CanStart({LoginTask}, Len(RemoteList))
    /\ tasks' = tasks \cup {LoginTask}
    /\ started' = started + 1
    /\ loginError' = FALSE
    /\ lastOp' = Other
    /\ UNCHANGED <<apiKey, storage, collections, filteredCollections,
                   currentCollection, selectedEndpoints, hash, screen, view,
                   folderTree, cards, summaryVisible, summaryContent, refreshDisabled, uncaught, order, fnIn, fnOut>>
    /\ Sweep(heap)

\* validateAndLogin after the /me fetch (app.js 152-177); on success it calls
\* loadCollections, which issues the list fetch
ValidateAndLoginDone(t, outcome) ==
    /\ t \in tasks
    /\ t.kind = "login"
    /\ IF outcome = "ok"
       THEN /\ apiKey' = "k"
            /\ storage' = "k"
            /\ screen' = "main"
            /\ tasks' = (tasks \ {t}) \cup {ListTask("login")}
            /\ UNCHANGED loginError
       ELSE /\ tasks' = tasks \ {t}
            /\ loginError' = TRUE
            /\ UNCHANGED <<apiKey, storage, screen>>
    /\ lastOp' = Other
    /\ UNCHANGED <<collections, filteredCollections, currentCollection,
                   selectedEndpoints, hash, view, folderTree, cards,
                   summaryVisible, summaryContent, refreshDisabled,
                   started, uncaught, order, fnIn, fnOut>>
    /\ Sweep(heap)

\* a logout that forgets localStorage.removeItem
HandleLogoutKeepsStorage(confirmed) ==
    /\ screen = "main"
    /\ IF confirmed
       THEN /\ apiKey' = ""
            /\ collections' = <<>>
            /\ filteredCollections' =
                   [alias |-> FALSE, arr |-> Filtered(collections)]
            /\ selectedEndpoints' = <<>>
            /\ order' = <<>>
            /\ currentCollection' = 0
            /\ screen' = "login"
            /\ cards' = <<>>
       ELSE UNCHANGED <<apiKey, collections, filteredCollections,
                        selectedEndpoints, order, currentCollection,
                        screen, cards>>
    /\ lastOp' = [Op("handleLogout", 0, "", confirmed) EXCEPT
                     !.preSize = Len(selectedEndpoints)]
    /\ UNCHANGED <<storage, loginError, hash, view, folderTree, summaryVisible,
                   summaryContent, refreshDisabled, tasks, started, uncaught, fnIn, fnOut>>
    /\ Sweep(heap)

\* handleLogout (app.js 179-194)
HandleLogout(confirmed) ==
    /\ screen = "main"
    /\ IF confirmed
       THEN /\ apiKey' = ""
            /\ collections' = <<>>
            /\ filteredCollections' =
                   [alias |-> FALSE, arr |-> Filtered(collections)]
            /\ selectedEndpoints' = <<>>
            /\ order' = <<>>
            /\ currentCollection' = 0
            /\ storage' = ""
            /\ screen' = "login"
            /\ cards' = <<>>
       ELSE UNCHANGED <<apiKey, collections, filteredCollections,
                        selectedEndpoints, order, currentCollection, storage,
                        screen, cards>>
    /\ lastOp' = [Op("handleLogout", 0, "", confirmed) EXCEPT
                     !.preSize = Len(selectedEndpoints)]
    /\ UNCHANGED <<loginError, hash, view, folderTree, summaryVisible,
                   summaryContent, refreshDisabled, tasks, started,
                   uncaught, fnIn, fnOut>>
    /\ Sweep(heap)

\* handleRefresh up to its await (app.js 196-207)
HandleRefresh ==
    /\ screen = "main"
    /\ ~refreshDisabled
    /\ CanStart({ListTask("refresh")}, Len(RemoteList))
    /\ refreshDisabled' = TRUE
    /\ tasks' = tasks \cup {ListTask("refresh")}
    /\ started' = started + 1
    /\ lastOp' = Other
    /\ UNCHANGED <<apiKey, storage, collections, filteredCollections,
                   currentCollection, selectedEndpoints, hash, screen, loginError, view,
                   folderTree, cards, summaryVisible, summaryContent, uncaught, order, fnIn, fnOut>>
    /\ Sweep(heap)

(***************************************************************************)
(* Collections                                                             *)
(***************************************************************************)
\* the showToast calls when loadCollections ends: its own catch (app.js 271)
\* and then its caller handleRefresh (app.js 208)
AfterLoad(from, failed) ==
    (IF failed THEN <<"Failed to load collections">> ELSE <<>>)
    \o (IF from = "refresh" THEN <<"Collections synced successfully!">> ELSE <<>>)

\* loadCollections after the list fetch (app.js 253-263, 270-272)
LoadCollectionsListDone(t, outcome) ==
    /\ t \in tasks
    /\ t.kind = "load"
    /\ t.pc = "list"
    /\ IF outcome = "ok"
       THEN LET n == Len(RemoteList)
                objs == [i \in 1..n |-> Len(heap) + i]
            IN /\ collections' = objs
               /\ filteredCollections' = [alias |-> TRUE, arr |-> <<>>]
               /\ tasks' = (tasks \ {t}) \cup
                           {Task("load", "details", t.from, "", objs, [i \in 1..n |-> "pending"])}
               /\ UNCHANGED <<refreshDisabled>>
       ELSE /\ tasks' = tasks \ {t}
            /\ refreshDisabled' = IF t.from = "refresh" THEN FALSE ELSE refreshDisabled
            /\ UNCHANGED <<collections, filteredCollections>>
    /\ lastOp' = OpT("loadCollections.list", 0, t.from, outcome = "ok",
                     IF outcome = "ok" THEN <<>> ELSE AfterLoad(t.from, TRUE))
    /\ UNCHANGED <<apiKey, storage, currentCollection, selectedEndpoints,
                   hash, screen, loginError, view, folderTree, cards, summaryVisible,
                   summaryContent, started, uncaught, order, fnIn, fnOut>>
    /\ Sweep(IF outcome = "ok"
             THEN heap \o [i \in 1..Len(RemoteList) |->
                      [uid |-> RemoteList[i], name |-> RemoteName(RemoteList[i]),
                       details |-> Undefined]]
             ELSE heap)

\* one per-collection detail fetch of the batch settles (app.js 260-263); when
\* Promise.all settles with it, the rest of loadCollections runs (265-272)
LoadCollectionDetailsSettled(t, i, outcome) ==
    /\ t \in tasks
    /\ t.kind = "load"
    /\ t.pc \in {"details", "abandoned"}
    /\ i \in 1..Len(t.results)
    /\ t.results[i] = "pending"
    /\ UNCHANGED <<apiKey, storage, collections, filteredCollections,
                   selectedEndpoints, hash, screen, loginError, summaryVisible,
                   summaryContent, started, uncaught, order, fnIn, fnOut>>
    /\ LET r == loadCollectionDetails(heap[t.objs[i]].uid, outcome)
           heap1 == IF r.status = "return"
                    THEN [heap EXCEPT ![t.objs[i]].details = r.value]
                    ELSE heap
           results1 == [t.results EXCEPT ![i] =
                           IF r.status = "return" THEN "fulfilled" ELSE "rejected"]
           all == IF t.pc = "details" THEN PromiseAll(results1) ELSE "settled"
           ended == all \in {"fulfilled", "rejected"}
           left == \E j \in 1..Len(results1) : results1[j] = "pending"
           nav == IF all = "fulfilled" /\ hash # ""
                  THEN handleHashChange(hash, heap1)
                  ELSE [cur |-> currentCollection, view |-> view,
                        tree |-> folderTree, spawn |-> {}]
       IN /\ tasks' = (tasks \ {t})
                      \cup (IF all = "pending" THEN {[t EXCEPT !.results = results1]}
                            ELSE IF left THEN {[t EXCEPT !.results = results1, !.pc = "abandoned"]}
                            ELSE {})
                      \cup nav.spawn
          /\ cards' = IF all = "fulfilled"
                      THEN renderCollections(Filtered(collections), heap1)
                      ELSE cards
          /\ currentCollection' = nav.cur
          /\ view' = nav.view
          /\ folderTree' = nav.tree
          /\ refreshDisabled' = IF ended /\ t.from = "refresh" THEN FALSE ELSE refreshDisabled
          /\ lastOp' = OpT(IF ended THEN "loadCollections.done" ELSE "loadCollections.detail",
                           t.objs[i], heap[t.objs[i]].uid, outcome = "ok",
                           IF ended THEN AfterLoad(t.from, all = "rejected") ELSE <<>>)
          /\ Sweep(heap1)

\* openCollectionByUid after its detail fetch (app.js 95-110)
OpenCollectionByUidDone(t, outcome) ==
    /\ t \in tasks
    /\ t.kind = "open"
    /\ Len(heap) < MaxObjs
    /\ tasks' = tasks \ {t}
    /\ lastOp' = Op("openCollectionByUid.done", Len(heap) + 1, t.uid, outcome = "ok")
    /\ UNCHANGED <<apiKey, storage, filteredCollections, selectedEndpoints,
                   hash, screen, loginError, cards, summaryVisible, summaryContent,
                   refreshDisabled, started, order, fnIn, fnOut>>
    /\ LET r == loadCollectionDetails(t.uid, outcome)
           details == r.value
           obj == Len(heap) + 1
           heap1 == Append(heap, [uid |-> t.uid,
                                  name |-> IF details.tag = "ok" THEN details.name
                                           ELSE "Shared Collection",
                                  details |-> details])
           shown == showCollectionDetail(obj, heap1, selectedEndpoints)
       IN IF r.status = "return"
          THEN /\ collections' = IF details.tag # "error"
                                 THEN Append(collections, obj) ELSE collections
               /\ currentCollection' = shown.cur
               /\ view' = shown.view
               /\ folderTree' = shown.tree
               /\ uncaught' = uncaught
               /\ Sweep(heap1)
          ELSE /\ uncaught' = uncaught \cup {"FetchError"}
               /\ UNCHANGED <<collections, currentCollection, view, folderTree>>
               /\ Sweep(heap)

\* the Retry button: retryCollectionLoad up to its await (app.js 113-116)
RetryCollectionLoad ==
    /\ screen = "main"
    /\ view = "detail"
    /\ folderTree.kind = "error"
    /\ IF currentCollection # 0
       THEN /\ CanStart({Task("retry", "details", "", heap[currentCollection].uid, <<>>, <<>>)}, 0)
            /\ folderTree' = Skeleton
            /\ tasks' = tasks \cup
                   {Task("retry", "details", "", heap[currentCollection].uid, <<>>, <<>>)}
            /\ started' = started + 1
       ELSE UNCHANGED <<folderTree, tasks, started>>
    /\ lastOp' = Other
    /\ UNCHANGED <<apiKey, storage, collections, filteredCollections,
                   currentCollection, selectedEndpoints, hash, screen, loginError, view,
                   cards, summaryVisible, summaryContent, refreshDisabled, uncaught, order, fnIn, fnOut>>
    /\ Sweep(heap)

\* retryCollectionLoad after its detail fetch (app.js 116-118)
RetryCollectionLoadDone(t, outcome) ==
    /\ t \in tasks
    /\ t.kind = "retry"
    /\ tasks' = tasks \ {t}
    /\ lastOp' = Op("retryCollectionLoad.done", currentCollection, t.uid, outcome = "ok")
    /\ UNCHANGED <<apiKey, storage, collections, filteredCollections,
                   currentCollection, selectedEndpoints, hash, screen, loginError, view,
                   cards, summaryVisible, summaryContent, refreshDisabled, started, order, fnIn, fnOut>>
    /\ LET r == loadCollectionDetails(t.uid, outcome)
       IN IF r.status # "return"
          THEN /\ uncaught' = uncaught \cup {"FetchError"}
               /\ UNCHANGED folderTree
               /\ Sweep(heap)
          ELSE IF currentCollection = 0
          THEN /\ uncaught' = uncaught \cup {"TypeError"}
               /\ UNCHANGED folderTree
               /\ Sweep(heap)
          ELSE /\ folderTree' = renderFolderTree(r.value, heap[currentCollection].name,
                                                 selectedEndpoints)
               /\ uncaught' = uncaught
               /\ Sweep([heap EXCEPT ![currentCollection].details = r.value])

(***************************************************************************)
(* Fragment navigation                                                     *)
(***************************************************************************)
\* the hashchange event with the new fragment (app.js 69, 72-80); setting the
\* fragment to its current value fires no event
Navigate(fragment) ==
    /\ IF fragment = hash
       THEN UNCHANGED <<hash, currentCollection, view, folderTree, tasks, started>>
       ELSE LET nav == handleHashChange(fragment, heap)
            IN /\ nav.spawn # {} => CanStart(nav.spawn, 1)
               /\ hash' = fragment
               /\ currentCollection' = nav.cur
               /\ view' = nav.view
               /\ folderTree' = nav.tree
               /\ tasks' = tasks \cup nav.spawn
               /\ started' = IF nav.spawn # {} THEN started + 1 ELSE started
    /\ lastOp' = Other
    /\ UNCHANGED <<apiKey, storage, collections, filteredCollections,
                   selectedEndpoints, screen, loginError, cards, summaryVisible,
                   summaryContent, refreshDisabled, uncaught, order,
                   fnIn, fnOut>>
    /\ Sweep(heap)

\* the user edits the fragment or uses back/forward
HandleHashChange(fragment) ==
    /\ fragment # hash
    /\ Navigate(fragment)

\* click on a collection card: showCollectionDetail(collection) (app.js 321-324, 347-350)
CardClick(i) ==
    /\ screen = "main"
    /\ view = "list"
    /\ i \in 1..Len(cards)
    /\ Navigate(cards[i].uid)

\* backToCollections (app.js 373-376)
BackToCollections ==
    /\ screen = "main"
    /\ view = "detail"
    /\ Navigate("")

(***************************************************************************)
(* Selection                                                               *)
(***************************************************************************)
TreeShown == screen = "main" /\ view = "detail" /\ folderTree.kind = "tree"

EntryOf(endpoint, collectionName) ==
    [name |-> endpoint.name, method |-> endpoint.method, path |-> endpoint.path,
     url |-> endpoint.url, response |-> endpoint.response,
     collectionName |-> collectionName]

\* body of handleEndpointSelection (app.js 575-581)
SelectOne(m, endpoint, collectionName, isSelected) ==
    IF isSelected
    THEN MapSet(m, KeyOf(collectionName, endpoint), EntryOf(endpoint, collectionName))
    ELSE MapDelete(m, KeyOf(collectionName, endpoint))

\* a loop that stops after the first endpoint
SelectManyFirstOnly(m, endpoints, collectionName, isSelected) ==
    IF Len(endpoints) = 0 THEN m
    ELSE SelectOne(m, parseEndpoint(Head(endpoints)), collectionName, isSelected)

\* the forEach of handleFolderSelection (app.js 557-566)
RECURSIVE SelectMany(_, _, _, _)
SelectMany(m, endpoints, collectionName, isSelected) ==
    IF Len(endpoints) = 0 THEN m
    ELSE SelectMany(SelectOne(m, parseEndpoint(Head(endpoints)), collectionName, isSelected),
                    Tail(endpoints), collectionName, isSelected)

\* history: the keys present, in the order they entered the set
Entered(ord, k, isSelected) ==
    IF isSelected
    THEN (IF \E i \in 1..Len(ord) : ord[i] = k THEN ord ELSE Append(ord, k))
    ELSE SelectSeq(ord, LAMBDA x : x # k)

RECURSIVE EnteredMany(_, _, _)
EnteredMany(ord, keys, isSelected) ==
    IF Len(keys) = 0 THEN ord
    ELSE EnteredMany(Entered(ord, Head(keys), isSelected), Tail(keys), isSelected)

KeysOf(endpoints, collectionName) ==
    [i \in 1..Len(endpoints) |-> KeyOf(collectionName, parseEndpoint(endpoints[i]))]

\* the checkboxes inside the element at position i (querySelectorAll on its div)
Inside(elems, i) ==
    {j \in i..Len(elems) : \A k \in (i + 1)..j : elems[k].depth > elems[i].depth}

\* change event of an endpoint checkbox (app.js 493-499) -> handleEndpointSelection
HandleEndpointSelection(i) ==
    /\ TreeShown
    /\ i \in 1..Len(folderTree.elems)
    /\ folderTree.elems[i].type = "endpoint"
    /\ LET el == folderTree.elems[i]
           isSelected == ~el.checked
           endpoint == parseEndpoint(el.item)
           sel == SelectOne(selectedEndpoints, endpoint, folderTree.collectionName, isSelected)
           sum == generateSummary(sel, summaryContent)
       IN /\ folderTree' = [folderTree EXCEPT !.elems[i].checked = isSelected]
          /\ selectedEndpoints' = sel
          /\ order' = Entered(order, KeyOf(folderTree.collectionName, endpoint), isSelected)
          /\ summaryVisible' = sum[1]
          /\ summaryContent' = sum[2]
          /\ lastOp' = OpSel("handleEndpointSelection", i, isSelected,
                             MapHas(selectedEndpoints, KeyOf(folderTree.collectionName, endpoint)))
    /\ UNCHANGED <<apiKey, storage, collections, filteredCollections,
                   currentCollection, hash, screen, loginError, view, cards, refreshDisabled, tasks, started, uncaught, fnIn, fnOut>>
    /\ Sweep(heap)

\* change event of a folder checkbox (app.js 466-473) -> handleFolderSelection
HandleFolderSelection(i) ==
    /\ TreeShown
    /\ i \in 1..Len(folderTree.elems)
    /\ folderTree.elems[i].type = "folder"
    /\ LET el == folderTree.elems[i]
           isSelected == ~el.checked
           allEndpoints == extractEndpointsFromItem(el.item)
           sel == SelectMany(selectedEndpoints, allEndpoints, folderTree.collectionName, isSelected)
           sum == generateSummary(sel, summaryContent)
       IN /\ folderTree' = [folderTree EXCEPT !.elems =
                 [j \in 1..Len(folderTree.elems) |->
                     IF j \in Inside(folderTree.elems, i)
                     THEN [folderTree.elems[j] EXCEPT !.checked = isSelected]
                     ELSE folderTree.elems[j]]]
          /\ selectedEndpoints' = sel
          /\ order' = EnteredMany(order, KeysOf(allEndpoints, folderTree.collectionName), isSelected)
          /\ summaryVisible' = sum[1]
          /\ summaryContent' = sum[2]
          /\ lastOp' = OpSel("handleFolderSelection", i, isSelected, FALSE)
    /\ UNCHANGED <<apiKey, storage, collections, filteredCollections,
                   currentCollection, hash, screen, loginError, view, cards, refreshDisabled, tasks, started, uncaught, fnIn, fnOut>>
    /\ Sweep(heap)

\* clearAllSelections (app.js 587-598); the button shows while count > 0
ClearAllSelections ==
    /\ screen = "main"
    /\ Len(selectedEndpoints) > 0
    /\ selectedEndpoints' = <<>>
    /\ order' = <<>>
    /\ folderTree' = [folderTree EXCEPT !.elems =
           [j \in 1..Len(folderTree.elems) |-> [folderTree.elems[j] EXCEPT !.checked = FALSE]]]
    /\ summaryVisible' = generateSummary(<<>>, summaryContent)[1]
    /\ summaryContent' = generateSummary(<<>>, summaryContent)[2]
    /\ lastOp' = OpSel("clearAllSelections", 0, TRUE, FALSE)
    /\ UNCHANGED <<apiKey, storage, collections, filteredCollections,
                   currentCollection, hash, screen, loginError, view, cards, refreshDisabled, tasks, started, uncaught, fnIn, fnOut>>
    /\ Sweep(heap)

(***************************************************************************)
(* The session machine: login, loading, navigation, retry, logout          *)
(***************************************************************************)
Outcomes == {"ok", "fail"}

Next ==
    \/ HandleLogin
    \/ \E t \in tasks, o \in Outcomes : ValidateAndLoginDone(t, o)
    \/ \E c \in BOOLEAN : HandleLogout(c)
    \/ HandleRefresh
    \/ \E t \in tasks, o \in Outcomes : LoadCollectionsListDone(t, o)
    \/ \E t \in tasks, i \in 1..Len(RemoteList), o \in Outcomes :
           LoadCollectionDetailsSettled(t, i, o)
    \/ \E t \in tasks, o \in Outcomes : OpenCollectionByUidDone(t, o)
    \/ RetryCollectionLoad
    \/ \E t \in tasks, o \in Outcomes : RetryCollectionLoadDone(t, o)
    \/ \E f \in Uids \cup {""} : HandleHashChange(f)
    \/ \E i \in 1..Len(cards) : CardClick(i)
    \/ BackToCollections

Spec == Init /\ [][Next]_vars

(***************************************************************************)
(* The selection machine: the checkbox tree of a loaded session.  It       *)
(* starts where Spec arrives after a login, a load whose fetches all       *)
(* succeed, and a click on the first card.                                 *)
(***************************************************************************)
LoadedHeap ==
    [i \in 1..Len(RemoteList) |->
        [uid |-> RemoteList[i], name |-> RemoteName(RemoteList[i]),
         details |-> RemoteCollection(RemoteList[i])]]

InitOpened ==
    /\ apiKey = "k"
    /\ storage = "k"
    /\ tasks = {}
    /\ started = 1
    /\ heap = LoadedHeap
    /\ collections = [i \in 1..Len(RemoteList) |-> i]
    /\ filteredCollections = [alias |-> TRUE, arr |-> <<>>]
    /\ currentCollection = 1
    /\ selectedEndpoints = <<>>
    /\ hash = RemoteList[1]
    /\ screen = "main"
    /\ loginError = FALSE
    /\ view = "detail"
    /\ folderTree = renderFolderTree(LoadedHeap[1].details, LoadedHeap[1].name, <<>>)
    /\ cards = renderCollections([i \in 1..Len(RemoteList) |-> i], LoadedHeap)
    /\ summaryVisible = FALSE
    /\ summaryContent = <<>>
    /\ refreshDisabled = FALSE
    /\ uncaught = {}
    /\ lastOp = Other
    /\ order = <<>>
    /\ fnIn = <<>>
    /\ fnOut = <<>>

NextSelection ==
    \/ \E i \in 1..Len(folderTree.elems) : HandleEndpointSelection(i)
    \/ \E i \in 1..Len(folderTree.elems) : HandleFolderSelection(i)
    \/ ClearAllSelections
    \/ \E f \in Uids \cup {""} : HandleHashChange(f)
    \/ \E i \in 1..Len(cards) : CardClick(i)
    \/ BackToCollections
    \/ \E c \in BOOLEAN : HandleLogout(c)

SpecSelection == InitOpened /\ [][NextSelection]_vars

\* the opened state is a state of the session machine
OpenedState ==
    /\ apiKey = "k" /\ storage = "k" /\ tasks = {} /\ heap = LoadedHeap
    /\ collections = <<1, 2>> /\ filteredCollections.alias /\ currentCollection = 1
    /\ hash = "u1" /\ screen = "main" /\ view = "detail"
    /\ folderTree = renderFolderTree(LoadedHeap[1].details, LoadedHeap[1].name, <<>>)
    /\ cards = renderCollections(<<1, 2>>, LoadedHeap)
    /\ ~refreshDisabled /\ ~loginError /\ uncaught = {} /\ started = 1

(***************************************************************************)
(* Properties of the selection set                                         *)
(***************************************************************************)
ElemKey(i) ==
    KeyOf(folderTree.collectionName, parseEndpoint(folderTree.elems[i].item))

FolderEndpoints(i) == extractEndpointsFromItem(folderTree.elems[i].item)

FolderKeys(i) == KeysOf(FolderEndpoints(i), folderTree.collectionName)

\* the last two handlers were: select the endpoint at lastOp.arg, then
\* deselect the same endpoint
SelectThenDeselect ==
    /\ lastOp.name = "handleEndpointSelection"
    /\ ~lastOp.flag
    /\ lastOp.prev.name = "handleEndpointSelection"
    /\ lastOp.prev.flag
    /\ lastOp.prev.arg = lastOp.arg

\* C1 as stated: selecting an endpoint and then deselecting it leaves the
\* size of the selection set as it was before the select, whatever the set.
C1_RoundTripAnySet ==
    SelectThenDeselect => Len(selectedEndpoints) = lastOp.prev.preSize

\* C1 amended: selecting an endpoint and then deselecting it leaves the size
\* as it was before the select when the endpoint's key was not in the set
\* before the select; when the key was already there the size ends one less.
C1_RoundTrip ==
    SelectThenDeselect =>
        Len(selectedEndpoints) =
            IF lastOp.prev.preHad THEN lastOp.prev.preSize - 1
            ELSE lastOp.prev.preSize

C1_Witness ==
    /\ SelectThenDeselect
    /\ ~lastOp.prev.preHad
    /\ lastOp.prev.preSize >= 1
    /\ Len(selectedEndpoints) = lastOp.prev.preSize

\* C2: right after a folder toggle every endpoint of the folder has its key
\* in the set (toggle on) or none has (toggle off); toggling a folder on and
\* then off, starting from the empty set, leaves the set empty.
C2_AllInOrAllOut ==
    /\ lastOp.name = "handleFolderSelection" =>
          \A j \in 1..Len(FolderKeys(lastOp.arg)) :
              MapHas(selectedEndpoints, FolderKeys(lastOp.arg)[j]) = lastOp.flag
    /\ ( /\ lastOp.name = "handleFolderSelection" /\ ~lastOp.flag
         /\ lastOp.prev.name = "handleFolderSelection" /\ lastOp.prev.flag
         /\ lastOp.prev.arg = lastOp.arg /\ lastOp.prev.preSize = 0 )
       => selectedEndpoints = <<>>

C2_Witness ==
    /\ lastOp.name = "handleFolderSelection" /\ ~lastOp.flag
    /\ lastOp.prev.name = "handleFolderSelection" /\ lastOp.prev.flag
    /\ lastOp.prev.arg = lastOp.arg /\ lastOp.prev.preSize = 0
    /\ Len(FolderKeys(lastOp.arg)) >= 2
    /\ selectedEndpoints = <<>>

\* C3: the blocks of the text export, and the cards of the rendered summary
\* whenever the set is non-empty, are one per key of the set, in the order
\* in which the keys entered the set.
InEntryOrder(entries) ==
    /\ Len(entries) = Len(order)
    /\ \A i \in 1..Len(entries) :
          /\ extractPath(entries[i].url) = order[i][2]
          /\ entries[i].method = order[i][3]

C3_SummaryOrder ==
    /\ InEntryOrder(getSummaryText(selectedEndpoints))
    /\ Len(selectedEndpoints) > 0 => summaryVisible /\ InEntryOrder(summaryContent)

\* a summary whose order is not the tree's: e2 before the key of e1 and e3,
\* under which e3 has replaced e1
C3_Witness ==
    /\ Len(selectedEndpoints) = 2
    /\ selectedEndpoints[1].val.name = "e2"
    /\ selectedEndpoints[2].val.name = "e3"
    /\ lastOp.name = "handleEndpointSelection" /\ lastOp.preHad
    /\ summaryVisible /\ Len(summaryContent) = 2

\* C4: no key occurs twice in the set; selecting an endpoint whose key is
\* already present leaves the size unchanged and stores that endpoint's
\* descriptor under the key; a folder toggle stores, under each key, the
\* descriptor of the last endpoint of the folder that has the key.
NoDuplicateKeys ==
    \A i, j \in 1..Len(selectedEndpoints) :
        selectedEndpoints[i].key = selectedEndpoints[j].key => i = j

C4_OneEntryPerKey ==
    /\ NoDuplicateKeys
    /\ (lastOp.name = "handleEndpointSelection" /\ lastOp.flag) =>
          /\ MapHas(selectedEndpoints, ElemKey(lastOp.arg))
          /\ MapGet(selectedEndpoints, ElemKey(lastOp.arg)) =
                EntryOf(parseEndpoint(folderTree.elems[lastOp.arg].item),
                        folderTree.collectionName)
          /\ lastOp.preHad => Len(selectedEndpoints) = lastOp.preSize
    /\ (lastOp.name = "handleFolderSelection" /\ lastOp.flag) =>
          \A j \in 1..Len(FolderEndpoints(lastOp.arg)) :
              (\A l \in (j + 1)..Len(FolderEndpoints(lastOp.arg)) :
                   FolderKeys(lastOp.arg)[l] # FolderKeys(lastOp.arg)[j])
              => MapGet(selectedEndpoints, FolderKeys(lastOp.arg)[j]) =
                     EntryOf(parseEndpoint(FolderEndpoints(lastOp.arg)[j]),
                             folderTree.collectionName)

\* e3 selected while its key is held by e1, selected just before
C4_Witness ==
    /\ lastOp.name = "handleEndpointSelection" /\ lastOp.flag /\ lastOp.preHad
    /\ folderTree.elems[lastOp.arg].item.name = "e3"
    /\ lastOp.prev.name = "handleEndpointSelection" /\ lastOp.prev.flag
    /\ folderTree.elems[lastOp.prev.arg].item.name = "e1"
    /\ Len(selectedEndpoints) = lastOp.preSize
    /\ MapGet(selectedEndpoints, ElemKey(lastOp.arg)).name = "e3"

\* C9: right after a confirmed logout the credential is null in memory and
\* gone from the store, the collection list and the selection set are empty
\* and no collection is current.
C9_LogoutTearsDown ==
    (lastOp.name = "handleLogout" /\ lastOp.flag) =>
        /\ apiKey = ""
        /\ storage = ""
        /\ collections = <<>>
        /\ selectedEndpoints = <<>>
        /\ currentCollection = 0

C9_Witness ==
    /\ lastOp.name = "handleLogout" /\ lastOp.flag
    /\ lastOp.preSize >= 2
    /\ apiKey = "" /\ storage = "" /\ collections = <<>>
    /\ selectedEndpoints = <<>> /\ currentCollection = 0

\* C14: while a collection tree is shown, each endpoint checkbox is checked
\* exactly when the key of its endpoint is in the selection set.
C14_CheckboxMatchesSet ==
    TreeShown =>
        \A i \in 1..Len(folderTree.elems) :
            folderTree.elems[i].type = "endpoint" =>
                (folderTree.elems[i].checked <=> MapHas(selectedEndpoints, ElemKey(i)))

(***************************************************************************)
(* The traversals on arbitrary trees: nodes with or without a request,     *)
(* with a missing, an empty or a populated item array, nested MaxDepth     *)
(* deep and up to MaxWidth wide.                                           *)
(***************************************************************************)
Node(hasRequest, hasItem, items) ==
    [name |-> "n",
     request |-> IF hasRequest THEN <<[method |-> "GET", url |-> UrlA]>> ELSE <<>>,
     hasItem |-> hasItem, item |-> items, response |-> <<>>]

Leaves == {Node(r, h, <<>>) : r \in BOOLEAN, h \in BOOLEAN}

Siblings == {Node(r, FALSE, <<>>) : r \in BOOLEAN}

\* the item arrays over the subtrees sub: one subtree alone, or first or last
\* among siblings without children
ChildLists(sub) ==
    {<<c>> : c \in sub} \cup
    UNION {{[i \in 1..wp[1] |-> IF i = wp[2] THEN cf[1] ELSE cf[2][i]] :
               cf \in sub \X [1..wp[1] -> Siblings]} :
             wp \in {x \in (2..MaxWidth) \X (1..MaxWidth) : x[2] \in {1, x[1]}}}

RECURSIVE TreesOfDepth(_)
TreesOfDepth(d) ==
    IF d = 0 THEN Leaves
    ELSE Leaves \cup
         {Node(rl[1], TRUE, rl[2]) : rl \in BOOLEAN \X ChildLists(TreesOfDepth(d - 1))}

AsDetails(node) ==
    [tag |-> "ok", uid |-> "", name |-> node.name, hasItem |-> node.hasItem,
     item |-> node.item]

NoResult == [op |-> "none", list |-> <<>>, count |-> 0]

InitExtract ==
    /\ InitSession
    /\ storage = ""
    /\ fnIn \in TreesOfDepth(MaxDepth)
    /\ fnOut = NoResult

\* createFolderElement's call of extractEndpointsFromItem (app.js 432)
ApplyExtractEndpoints ==
    /\ fnOut' = [op |-> "extract", list |-> extractEndpointsFromItem(fnIn), count |-> 0]
    /\ UNCHANGED <<sessionVars, fnIn>>

\* createCollectionCard's call of countEndpoints (app.js 309)
ApplyCountEndpoints ==
    /\ fnOut' = [op |-> "count", list |-> <<>>, count |-> countEndpoints(AsDetails(fnIn))]
    /\ UNCHANGED <<sessionVars, fnIn>>

NextExtract == ApplyExtractEndpoints \/ ApplyCountEndpoints

SpecExtract == InitExtract /\ [][NextExtract]_vars

\* the nodes below the root, by the path of item indices that leads to them
Paths == UNION {[1..n -> 1..MaxWidth] : n \in 1..MaxDepth}

RECURSIVE Reaches(_, _, _)
Reaches(node, path, k) ==
    \/ k > Len(path)
    \/ /\ node.hasItem
       /\ path[k] <= Len(node.item)
       /\ Reaches(node.item[path[k]], path, k + 1)

RECURSIVE NodeAt(_, _, _)
NodeAt(node, path, k) ==
    IF k > Len(path) THEN node ELSE NodeAt(node.item[path[k]], path, k + 1)

RequestNodes(root) ==
    {path \in Paths : Reaches(root, path, 1) /\ Truthy(NodeAt(root, path, 1).request)}

RECURSIVE Depth(_)
Depth(node) ==
    IF ~node.hasItem \/ Len(node.item) = 0 THEN 0
    ELSE 1 + Depth(node.item[CHOOSE i \in 1..Len(node.item) :
                     \A j \in 1..Len(node.item) :
                        Depth(node.item[j]) <= Depth(node.item[i])])

\* C5: extractEndpointsFromItem returns, and countEndpoints counts, exactly
\* one element per node with a request that is reachable from the root
\* through item arrays, at any depth, with item arrays or requests missing.
C5_ExtractCountsRequests ==
    /\ fnOut.op = "extract" => Len(fnOut.list) = Cardinality(RequestNodes(fnIn))
    /\ fnOut.op = "count" => fnOut.count = Cardinality(RequestNodes(fnIn))

\* a tree of full depth whose top node has a request and children, with
\* request nodes at the bottom
C5_Witness ==
    /\ fnOut.op = "extract"
    /\ Depth(fnIn) = MaxDepth
    /\ Len(fnOut.list) >= 3
    /\ \E path \in RequestNodes(fnIn) : Len(path) = MaxDepth
    /\ \E path \in RequestNodes(fnIn) :
          Len(path) = 1 /\ NodeAt(fnIn, path, 1).hasItem
                        /\ Len(NodeAt(fnIn, path, 1).item) > 0
    /\ \E path \in Paths : Reaches(fnIn, path, 1) /\ ~NodeAt(fnIn, path, 1).hasItem
                           /\ ~Truthy(NodeAt(fnIn, path, 1).request)

(***************************************************************************)
(* The summary of one selected endpoint, over its saved responses: up to   *)
(* MaxResponses of them, named or not, with a body that is JSON, is not    *)
(* JSON, or is missing.                                                    *)
(***************************************************************************)
BodyCut == <<"{", "ok", ":">>

SavedResponses ==
    {SavedResponse(n, b) : n \in {"", "OK"},
                           b \in {BodyEmpty, BodyObject, BodyLiteral, BodyText, BodyCut}}

ResponseLists == UNION {[1..n -> SavedResponses] : n \in 0..MaxResponses}

InitSummary ==
    /\ InitSession
    /\ storage = ""
    /\ fnIn \in {EntryOf(parseEndpoint(WithResponses(Leaf("e", "GET", UrlA), rs)), "Col") :
                    rs \in ResponseLists}
    /\ fnOut = [op |-> "none", blocks |-> <<>>]

\* generateSummary's call of createCollapsibleEndpointSummary (app.js 622)
ApplyCreateSummary ==
    /\ fnOut' = [op |-> "card", blocks |-> createCollapsibleEndpointSummary(fnIn).blocks]
    /\ UNCHANGED <<sessionVars, fnIn>>

\* the copy button's call of getSummaryText with the endpoint selected
ApplyGetSummaryText ==
    /\ fnOut' = [op |-> "text",
                 blocks |-> getSummaryText(<<[key |-> KeyOf("Col", fnIn), val |-> fnIn]>>)[1].blocks]
    /\ UNCHANGED <<sessionVars, fnIn>>

NextSummary == ApplyCreateSummary \/ ApplyGetSummaryText

SpecSummary == InitSummary /\ [][NextSummary]_vars

WithBody(responses) == SelectSeq(responses, LAMBDA r : Truthy(r.body))

\* C11: the summary of a selected endpoint, on the page and as copied text,
\* has one response block for each saved response that has a body, in their
\* order; the block holds the pretty-printed JSON when the body parses and
\* the body as it is when it does not.
C11_BlockPerBody ==
    fnOut.op \in {"card", "text"} =>
        LET bodies == WithBody(fnIn.response)
        IN /\ Len(fnOut.blocks) = Len(bodies)
           /\ \A k \in 1..Len(bodies) :
                 /\ JsonParse(bodies[k].body).ok =>
                       fnOut.blocks[k].text = JsonStringify(JsonParse(bodies[k].body).value)
                 /\ ~JsonParse(bodies[k].body).ok =>
                       fnOut.blocks[k].text = bodies[k].body

\* two saved responses, the first a JSON object and the second not JSON: two
\* blocks in the copied text, one pretty-printed and one raw
C11_Witness ==
    /\ fnOut.op = "text"
    /\ Len(fnIn.response) = 2
    /\ fnIn.response[1].body = BodyObject
    /\ fnIn.response[2].body = BodyText
    /\ Len(fnOut.blocks) = 2
    /\ fnOut.blocks[1].text # BodyObject
    /\ fnOut.blocks[2].text = BodyText
    /\ fnOut.blocks[2].title.index = 2

(***************************************************************************)
(* extractPath on arbitrary URL strings of up to MaxUrlLen tokens: with or  *)
(* without a scheme, a host, a path, a query, the template marker.         *)
(***************************************************************************)
UrlTokens == {"http:", "//", "h", "/", "a", "?", "{{"}

UrlStrings == UNION {[1..n -> UrlTokens] : n \in 0..MaxUrlLen}

InitPath ==
    /\ InitSession
    /\ storage = ""
    /\ fnIn \in UrlStrings
    /\ fnOut = [op |-> "none", path |-> <<>>, again |-> <<>>]

\* parseEndpoint's call of extractPath (app.js 513), and extractPath on its result
ApplyExtractPath ==
    /\ fnOut' = [op |-> "path", path |-> extractPath(fnIn),
                 again |-> extractPath(extractPath(fnIn))]
    /\ UNCHANGED <<sessionVars, fnIn>>

NextPath == ApplyExtractPath

SpecPath == InitPath /\ [][NextPath]_vars

\* C12: extractPath returns its input unchanged for every URL string that
\* contains the template marker and for every one that does not parse as a
\* URL; on a templated URL a second application changes nothing.
C12_TemplatedUnchanged ==
    fnOut.op = "path" =>
        /\ (HasTemplate(fnIn) \/ ~Parses(fnIn)) => fnOut.path = fnIn
        /\ HasTemplate(fnIn) => fnOut.again = fnOut.path

\* a templated URL that would parse, with a path and a query that parsing
\* would have cut
C12_Witness ==
    /\ fnOut.op = "path"
    /\ HasTemplate(fnIn)
    /\ Parses(fnIn)
    /\ Pathname(fnIn) # fnIn
    /\ fnOut.path = fnIn
    /\ fnOut.again = fnIn

(***************************************************************************)
(* Properties of the session machine                                       *)
(***************************************************************************)
Fetched(uid, ok) == IF ok THEN RemoteCollection(uid) ELSE ErrorValue

\* C6: loadCollections never ends its batch (cards rendered, fragment
\* processed) while one of the batch's detail fetches is pending; each fetch
\* that settles stores its own result, the tree or the error value, on its
\* own collection and leaves every other collection as it was.
C6_NoneAbandoned ==
    \A t \in tasks : t.kind = "load" => t.pc # "abandoned"

C6_SettleStep ==
    lastOp'.name \in {"loadCollections.detail", "loadCollections.done"} =>
        /\ heap'[lastOp'.arg].uid = lastOp'.uid
        /\ heap'[lastOp'.arg].details = Fetched(lastOp'.uid, lastOp'.flag)
        /\ \A o \in Referenced' : (o \in 1..Len(heap) /\ o # lastOp'.arg) => heap'[o] = heap[o]
        /\ lastOp'.name = "loadCollections.done" =>
              cards' = renderCollections(Filtered(collections), heap')

C6_BatchSettles == []C6_NoneAbandoned /\ [][C6_SettleStep]_vars

\* the second collection failed first, the first one succeeded last, and the
\* cards were rendered with the first one's endpoints counted
C6_Witness ==
    /\ lastOp.name = "loadCollections.done"
    /\ lastOp.flag
    /\ lastOp.arg = collections[1]
    /\ Len(collections) = 2
    /\ heap[collections[1]].details = RemoteCollection("u1")
    /\ heap[collections[2]].details = ErrorValue
    /\ Len(cards) = 2
    /\ cards[1].count = 3
    /\ cards[2].count = 0

\* C7: when the fetch started by openCollectionByUid completes while the
\* fragment no longer names that collection, the collection does not become
\* the current one and its detail view is not opened.
C7_DiscardedWhenAway ==
    (lastOp.name = "openCollectionByUid.done" /\ hash # lastOp.uid) =>
        /\ currentCollection # lastOp.arg
        /\ hash = "" => view = "list"

\* the session is logged out: the key is gone, the login screen shows, and
\* no login attempt is in flight or has failed since
LoggedOut ==
    /\ apiKey = ""
    /\ screen = "login"
    /\ ~loginError
    /\ LoginTask \notin tasks

\* C13: while the session is logged out, the in-memory collection list is
\* empty and no collection is the current one, whatever fetch that was in
\* flight at the logout has completed since.
C13_LoggedOutStaysEmpty ==
    LoggedOut => (collections = <<>> /\ currentCollection = 0)

\* C8: no failed collection fetch leaves a handler uncaught; a failed list
\* fetch shows the failure toast and a failed detail fetch hands the error
\* value to the handler that awaited it.
C8_FetchFailuresCaught ==
    /\ "FetchError" \notin uncaught
    /\ (lastOp.name = "loadCollections.list" /\ ~lastOp.flag) =>
          Len(lastOp.toasts) > 0 /\ lastOp.toasts[1] = "Failed to load collections"
    /\ (lastOp.name \in {"loadCollections.detail", "loadCollections.done",
                         "openCollectionByUid.done"} /\ ~lastOp.flag) =>
          heap[lastOp.arg].details = ErrorValue
    /\ (lastOp.name = "openCollectionByUid.done" /\ ~lastOp.flag) =>
          folderTree.kind = "error"
    /\ (lastOp.name = "retryCollectionLoad.done" /\ ~lastOp.flag /\ lastOp.arg # 0) =>
          heap[lastOp.arg].details = ErrorValue /\ folderTree.kind = "error"

\* a deep-link fetch that failed while no collection was listed
C8_Witness ==
    /\ lastOp.name = "openCollectionByUid.done"
    /\ ~lastOp.flag
    /\ screen = "main"
    /\ collections = <<>>
    /\ heap[lastOp.arg].details = ErrorValue
    /\ folderTree.kind = "error"
    /\ uncaught = {}

Toasted(message) == \E i \in 1..Len(lastOp.toasts) : lastOp.toasts[i] = message

\* C15: when the list fetch of a refresh fails, the refresh shows
\* 'Sync failed' and does not show 'Collections synced successfully!'; the
\* success message shows only at the end of a load whose list fetch succeeded.
C15_RefreshReportsFailure ==
    /\ (lastOp.name = "loadCollections.list" /\ lastOp.uid = "refresh" /\ ~lastOp.flag) =>
          /\ Toasted("Sync failed")
          /\ ~Toasted("Collections synced successfully!")
    /\ Toasted("Collections synced successfully!") => lastOp.name = "loadCollections.done"

\* C10: when the retry fetch for uid U succeeds, U's tree is stored on no
\* collection other than one whose uid is U, and is rendered only if the
\* current collection is one whose uid is U.
C10_RetryScoped ==
    (lastOp.name = "retryCollectionLoad.done" /\ lastOp.flag) =>
        /\ \A o \in 1..Len(heap) :
              heap[o].details = RemoteCollection(lastOp.uid) => heap[o].uid = lastOp.uid
        /\ (folderTree.kind = "tree" /\ currentCollection # 0) =>
              heap[currentCollection].uid = lastOp.uid
              \/ folderTree.elems # createTreeItemElements(
                                        RemoteItems(lastOp.uid),
                                        folderTree.collectionName, 0, selectedEndpoints)

====
